---- MODULE Spec2Model ----
(***************************************************************************)
(* Model of pypomes_messaging.mq_publisher._MqPublisher: the publisher     *)
(* thread (run() and the pika callbacks it dispatches from the IOLoop),    *)
(* the caller threads that invoke publish_message() and stop(), and the    *)
(* broker/transport that produces the events pika reports.                 *)
(*                                                                         *)
(* The publisher thread's callbacks run one at a time on the IOLoop, so    *)
(* each callback is one action.  publish_message() and stop() run on       *)
(* caller threads, concurrently with the IOLoop and with each other, and   *)
(* are split at every access to an attribute another thread writes.        *)
(***************************************************************************)
EXTENDS Integers, Sequences, FiniteSets, TLC

\* ---------------------------------------------------------------- bounds
MaxCfgDelay == 5     \* max_reconnect_delay is drawn from 0..MaxCfgDelay
MaxAttempts == 6     \* connection objects created by run(), SpecBackoff
MaxCycles   == 2     \* connection objects created by run(), Spec
MaxPublish  == 3     \* calls of publish_message(), Spec
MaxConfirm  == 2     \* delivery confirmations sent by the broker, Spec
MaxRaceConfirm == 1  \* delivery confirmations sent by the broker, SpecRace
MaxRaceCycles  == 1  \* connection objects created by run(), SpecRace
MaxRacePublish == 2  \* calls of publish_message() over all threads, SpecRace
MaxStops       == 2  \* calls of stop(), SpecStop
MaxStopCycles  == 2  \* connection objects created by run(), SpecStop
MaxStarts      == 2  \* calls of subscriber_start(), SpecStart
MaxEntryErrors == 1  \* entries the errors list holds when it is passed in
Threads     == {1, 2}   \* caller threads
\* the caller thread of the runs with a single caller
Caller      == CHOOSE t \in Threads : \A u \in Threads : t <= u

\* ------------------------------------------------------------- constants
MQP_CONNECTION_OPEN   == 1
MQP_CONNECTION_CLOSED == 2
MQP_CONNECTION_ERROR  == -1
MQP_INITIALIZING      == 0

None == "None"

\* the states of the subscriber's consumer (mq_subscriber)
MQS_INITIALIZING      == "INITIALIZING"
MQS_CONNECTION_OPEN   == "OPEN"
MQS_CONNECTION_CLOSED == "CLOSED"
MQS_CONNECTION_ERROR  == "ERROR"
DEFAULT_BADGE         == "__default__"

VARIABLES
    \* attributes of _MqPublisher
    state,                 \* self.state
    state_msg,             \* self.state_msg
    stopped,               \* self.stopped
    started_publishing,    \* self.started_publishing
    acked, nacked,         \* self.acked, self.nacked
    msg_last_filed,        \* self.msg_last_filed
    msg_last_sent,         \* self.msg_last_sent
    reconnect_delay,       \* self.reconnect_delay
    max_reconnect_delay,   \* self.max_reconnect_delay
    messages,              \* self.messages: sequence number -> record
    conn,                  \* self.conn: None, or the state of the pika connection
    channel,               \* self.channel: None, or the state of the pika channel
    \* pika / broker
    chanStage,             \* channel set-up of the current connection
    stopTimer,             \* call_later(delay, ioloop.stop) is pending
    sendTimers,            \* pending call_later(publish_interval, send_message)
    \* control
    runPc,                 \* position of the publisher thread in run()
    raised,                \* exception that ended the publisher thread
    pubPc, pubTmp, pubRet, \* publish_message(): position, local value, outcome
    stopPc,                \* stop(): position of the calling thread
    \* history
    attempts,              \* connection objects created so far
    calls,                 \* publish_message() calls begun so far
    confirms,              \* delivery confirmations delivered so far
    delays,                \* values returned by __get_reconnect_delay, in order
    assigned,              \* sequence numbers under which records were stored
                           \* since the last reset in run(), in order
    hiFiled,               \* the highest value self.msg_last_filed has had
    callOpen,              \* the channel was open at some time during the call
    stops,                 \* stop() calls begun so far
    closeReqs,             \* self.conn.close() calls made by stop() so far
    last,                  \* the operation that made the latest step
    \* subscriber_pomes
    subscribers,           \* __subscribers: the badges that have an instance
    consumerState,         \* subscriber.consumer.get_state()
    consumerStarted,       \* subscriber.start() has started the thread
    startPc,               \* subscriber_start(): position of the caller
    errors, result,        \* subscriber_start(): the errors list, the result
    subscriber,            \* subscriber_start(): the instance retrieved
    starts,                \* subscriber_start() calls begun so far
    consumerLeft,          \* the consumer has been out of INITIALIZING
    stateTested            \* the state the test after the wait has read

prog  == <<state, state_msg, stopped, started_publishing, acked, nacked, msg_last_filed,
           msg_last_sent, reconnect_delay, max_reconnect_delay, messages,
           conn, channel>>
env   == <<chanStage, stopTimer, sendTimers>>
ctl   == <<runPc, raised, pubPc, pubTmp, pubRet, stopPc>>
stopHist == <<stops, closeReqs>>
hist  == <<attempts, calls, confirms, delays, assigned, hiFiled, callOpen,
           stopHist, last>>
sub   == <<subscribers, consumerState, consumerStarted, startPc, errors,
           result, subscriber, starts, consumerLeft, stateTested>>
vars  == <<prog, env, ctl, hist, sub>>
hist_but_last == <<attempts, calls, confirms, delays, assigned, hiFiled, callOpen,
                   stopHist>>

Max(a, b) == IF a >= b THEN a ELSE b
Min(a, b) == IF a <= b THEN a ELSE b

\* the keys of the ledger
Ledger == DOMAIN messages

\* the history entry of a step that is not a delivery confirmation
Other == [op |-> "other"]

\* dict.pop(k) / dict[k] = v
DictPop(d, ks)    == [k \in (DOMAIN d) \ ks |-> d[k]]
DictSet(d, k, v)  == [x \in (DOMAIN d) \cup {k} |-> IF x = k THEN v ELSE d[x]]
EmptyDict         == [k \in {} |-> 0]

\* ------------------------------------------------------------------ Init
\* __init__: self.messages is None until run() assigns {}; no handler reads
\* it while it is None, and it is modelled by the empty dict.
Constructed ==
    /\ state = MQP_INITIALIZING
    /\ state_msg = "Attenpting to instantiate the publisher"
    /\ stopped = FALSE
    /\ started_publishing = FALSE
    /\ acked = 0 /\ nacked = 0
    /\ msg_last_filed = 0 /\ msg_last_sent = 0
    /\ reconnect_delay = 0
    /\ messages = EmptyDict
    /\ conn = None
    /\ channel = None
    /\ chanStage = "idle"
    /\ stopTimer = FALSE
    /\ sendTimers = 0
    /\ runPc = "loop_test"
    /\ raised = None
    /\ pubPc = [t \in Threads |-> "idle"]
    /\ pubTmp = [t \in Threads |-> 0]
    /\ pubRet = [t \in Threads |-> None]
    /\ stopPc = "idle"
    /\ attempts = 0
    /\ calls = 0
    /\ confirms = 0
    /\ delays = <<>>
    /\ assigned = <<>>
    /\ hiFiled = 0
    /\ callOpen = [t \in Threads |-> FALSE]
    /\ stops = 0
    /\ closeReqs = 0
    /\ last = Other

\* ------------------------------------------------- __get_reconnect_delay
\* the new value of self.reconnect_delay, which is also the value returned
GetReconnectDelay(rd, ready, maxd) ==
    LET stepped == IF ready THEN 0 ELSE rd + 1
    IN  Max(stepped, maxd)

\* the effect of one call on the state, with its record in the history
CallGetReconnectDelay ==
    LET d == GetReconnectDelay(reconnect_delay, started_publishing,
                               max_reconnect_delay)
    IN  /\ reconnect_delay' = d
        /\ delays' = Append(delays, [d |-> d, ready |-> started_publishing])

\* ------------------------------------------------------------------ run()
\* while not self.stopped
RunLoopTest ==
    /\ runPc = "loop_test"
    /\ runPc' = IF stopped THEN "finished" ELSE "reset"
    /\ last' = Other
    /\ UNCHANGED <<prog, env, raised, pubPc, pubTmp, pubRet, stopPc,
                   attempts, stopHist, sub, calls, confirms, delays, assigned, hiFiled,
                   callOpen>>

\* self.messages = {}; self.acked = 0; self.nacked = 0; self.msg_last_sent = 0
RunReset ==
    /\ runPc = "reset"
    /\ messages' = EmptyDict
    /\ acked' = 0
    /\ nacked' = 0
    /\ msg_last_sent' = 0
    /\ assigned' = <<>>
    /\ runPc' = "connect"
    /\ last' = Other
    /\ UNCHANGED <<state, state_msg, stopped, started_publishing, msg_last_filed,
                   reconnect_delay, max_reconnect_delay, conn, channel,
                   env, raised, pubPc, pubTmp, pubRet, stopPc,
                   attempts, stopHist, sub, calls, confirms, delays, hiFiled, callOpen>>

\* self.conn = self.connect(); self.conn.ioloop.start()
\* a SelectConnection comes with an IOLoop of its own: the timers of the
\* previous connection's loop never fire
RunConnect ==
    /\ runPc = "connect"
    /\ conn' = "connecting"
    /\ chanStage' = "idle"
    /\ stopTimer' = FALSE
    /\ sendTimers' = 0
    /\ attempts' = attempts + 1
    /\ runPc' = "ioloop"
    /\ last' = Other
    /\ UNCHANGED <<state, state_msg, stopped, started_publishing, acked, nacked,
                   msg_last_filed, msg_last_sent, reconnect_delay,
                   max_reconnect_delay, messages, channel,
                   raised, pubPc, pubTmp, pubRet, stopPc,
                   stopHist, sub, calls, confirms, delays, assigned, hiFiled, callOpen>>

\* the callback of call_later(delay, self.conn.ioloop.stop): start() returns
IoloopStop ==
    /\ runPc = "ioloop"
    /\ stopTimer
    /\ stopTimer' = FALSE
    /\ runPc' = "loop_test"
    /\ last' = Other
    /\ UNCHANGED <<prog, chanStage, sendTimers, raised, pubPc, pubTmp, pubRet,
                   stopPc, attempts, stopHist, sub, calls, confirms, delays, assigned,
                   hiFiled, callOpen>>

\* ------------------------------------------------- connection callbacks
on_connection_open ==
    /\ runPc = "ioloop"
    /\ conn = "connecting"
    /\ state' = MQP_CONNECTION_OPEN
    /\ state_msg' = "Connection was open"
    /\ conn' = "open"
    /\ chanStage' = "opening"                 \* open_channel()
    /\ last' = Other
    /\ UNCHANGED <<stopped, started_publishing, acked, nacked, msg_last_filed,
                   msg_last_sent, reconnect_delay, max_reconnect_delay,
                   messages, channel, stopTimer, sendTimers, ctl,
                   attempts, stopHist, sub, calls, confirms, assigned, hiFiled, callOpen,
                   delays>>

\* the connection could not be established, or was closed before it opened
on_connection_open_error ==
    /\ runPc = "ioloop"
    /\ conn \in {"connecting", "aborting"}
    /\ state' = MQP_CONNECTION_ERROR
    /\ state_msg' = "Error establishing connection"    \* ": {error}"
    /\ conn' = "closed"
    /\ CallGetReconnectDelay
    /\ stopTimer' = TRUE
    /\ last' = Other
    /\ UNCHANGED <<stopped, started_publishing, acked, nacked, msg_last_filed,
                   msg_last_sent, max_reconnect_delay, messages, channel,
                   chanStage, sendTimers, ctl, attempts, stopHist, sub, calls, confirms,
                   assigned, hiFiled, callOpen>>

\* on_connection_closed that stops the loop at once in both branches
on_connection_closed_no_backoff ==
    /\ runPc = "ioloop"
    /\ conn \in {"open", "closing"}
    /\ state' = MQP_CONNECTION_CLOSED
    /\ state_msg' = "Connection was closed"           \* ": {reason}"
    /\ conn' = "closed"
    /\ channel' = None
    /\ chanStage' = "idle"
    /\ IF stopped
       THEN /\ runPc' = "loop_test"          \* self.conn.ioloop.stop()
            /\ UNCHANGED <<reconnect_delay, delays, stopTimer>>
       ELSE /\ runPc' = "loop_test"
            /\ UNCHANGED <<reconnect_delay, delays, stopTimer>>
    /\ last' = Other
    /\ UNCHANGED <<stopped, started_publishing, acked, nacked, msg_last_filed,
                   msg_last_sent, max_reconnect_delay, messages, sendTimers,
                   raised, pubPc, pubTmp, pubRet, stopPc, attempts, stopHist, sub, calls,
                   confirms, assigned, hiFiled, callOpen>>

on_connection_closed ==
    /\ runPc = "ioloop"
    /\ conn \in {"open", "closing"}
    /\ state' = MQP_CONNECTION_CLOSED
    /\ state_msg' = "Connection was closed"           \* ": {reason}"
    /\ conn' = "closed"
    /\ channel' = None
    /\ chanStage' = "idle"
    /\ IF stopped
       THEN /\ runPc' = "loop_test"          \* self.conn.ioloop.stop()
            /\ UNCHANGED <<reconnect_delay, delays, stopTimer>>
       ELSE /\ CallGetReconnectDelay
            /\ stopTimer' = TRUE
            /\ UNCHANGED runPc
    /\ last' = Other
    /\ UNCHANGED <<stopped, started_publishing, acked, nacked, msg_last_filed,
                   msg_last_sent, max_reconnect_delay, messages, sendTimers,
                   raised, pubPc, pubTmp, pubRet, stopPc, attempts, stopHist, sub, calls,
                   confirms, assigned, hiFiled, callOpen>>

\* ---------------------------------------------------- channel callbacks
\* self.channel = channel; setup_exchange()
on_channel_open ==
    /\ runPc = "ioloop"
    /\ conn = "open"
    /\ chanStage = "opening"
    /\ channel' = "open"
    /\ chanStage' = "declaring"
    /\ callOpen' = [t \in Threads |-> TRUE]
    /\ last' = Other
    /\ UNCHANGED <<state, state_msg, stopped, started_publishing, acked, nacked,
                   msg_last_filed, msg_last_sent, reconnect_delay,
                   max_reconnect_delay, messages, conn, stopTimer, sendTimers,
                   ctl, attempts, stopHist, sub, calls, confirms, delays, assigned, hiFiled>>

\* on_channel_closed without the self.conn.close() of line 237
on_channel_closed_keeps_conn ==
    /\ runPc = "ioloop"
    /\ conn \in {"open", "closing"}
    /\ channel \in {"open", "closing"}
    /\ channel' = None
    /\ chanStage' = "idle"
    /\ conn' = conn
    /\ last' = [op |-> "channel_closed", stopped |-> stopped]
    /\ UNCHANGED <<state, state_msg, stopped, started_publishing, acked, nacked,
                   msg_last_filed, msg_last_sent, reconnect_delay,
                   max_reconnect_delay, messages, stopTimer, sendTimers,
                   ctl, attempts, stopHist, sub, calls, confirms, delays, assigned, hiFiled,
                   callOpen>>

\* the broker closed the channel, or confirmed the close stop() asked for
on_channel_closed ==
    /\ runPc = "ioloop"
    /\ conn \in {"open", "closing"}
    /\ channel \in {"open", "closing"}
    /\ channel' = None
    /\ chanStage' = "idle"
    /\ conn' = IF ~stopped /\ conn = "open" THEN "closing" ELSE conn
    /\ last' = [op |-> "channel_closed", stopped |-> stopped]
    /\ UNCHANGED <<state, state_msg, stopped, started_publishing, acked, nacked,
                   msg_last_filed, msg_last_sent, reconnect_delay,
                   max_reconnect_delay, messages, stopTimer, sendTimers,
                   ctl, attempts, stopHist, sub, calls, confirms, delays, assigned, hiFiled,
                   callOpen>>

\* self.channel.confirm_delivery(...); self.started_publishing = True
on_exchange_declare_ok ==
    /\ runPc = "ioloop"
    /\ conn = "open"
    /\ channel = "open"
    /\ chanStage = "declaring"
    /\ chanStage' = "ready"
    /\ started_publishing' = TRUE
    /\ last' = Other
    /\ UNCHANGED <<state, state_msg, stopped, acked, nacked, msg_last_filed,
                   msg_last_sent, reconnect_delay, max_reconnect_delay,
                   messages, conn, channel, stopTimer, sendTimers, ctl,
                   attempts, stopHist, sub, calls, confirms, delays, assigned, hiFiled,
                   callOpen>>

\* ------------------------------------------------- delivery confirmations
\* SweepTags with the comparison turned round
SweepTagsAbove(d, delivery_tag) == {msg_tag \in DOMAIN d : msg_tag >= delivery_tag}

\* the tags, other than delivery_tag, that a cumulative confirmation removes
\* (the loop over self.messages after delivery_tag itself has been popped)
SweepTags(d, delivery_tag) == {msg_tag \in DOMAIN d : msg_tag <= delivery_tag}

\* the tags a confirmation for a pending delivery_tag removes from the ledger
ResolvedTags(d, delivery_tag, ack_multiple) ==
    {delivery_tag} \cup
    (IF ack_multiple THEN SweepTags(DictPop(d, {delivery_tag}), delivery_tag)
                     ELSE {})

\* a Basic.Ack / Basic.Nack frame arrives on a channel in confirm mode;
\* the broker is free to send any tag
on_delivery_confirmation(confirmation_type, ack_multiple, delivery_tag) ==
    /\ runPc = "ioloop"
    /\ conn = "open"
    /\ channel = "open"
    /\ chanStage = "ready"
    /\ confirms' = confirms + 1
    /\ IF delivery_tag \in Ledger
       THEN LET gone == ResolvedTags(messages, delivery_tag, ack_multiple)
            IN  /\ messages' = DictPop(messages, gone)
                /\ acked'  = IF confirmation_type = "ack"
                             THEN acked + Cardinality(gone) ELSE acked
                /\ nacked' = IF confirmation_type = "ack"
                             THEN nacked ELSE nacked + Cardinality(gone)
                /\ UNCHANGED <<runPc, raised>>
       ELSE \* the counter is incremented, then self.messages.pop(delivery_tag)
            \* raises KeyError, which leaves ioloop.start() and run()
            /\ acked'  = IF confirmation_type = "ack" THEN acked + 1 ELSE acked
            /\ nacked' = IF confirmation_type = "ack" THEN nacked ELSE nacked + 1
            /\ raised' = "KeyError"
            /\ runPc' = "crashed"
            /\ UNCHANGED messages
    /\ last' = [op |-> "confirm", kind |-> confirmation_type,
                multiple |-> ack_multiple, tag |-> delivery_tag,
                known |-> delivery_tag \in Ledger]
    /\ UNCHANGED <<state, state_msg, stopped, started_publishing, msg_last_filed,
                   msg_last_sent, reconnect_delay, max_reconnect_delay,
                   conn, channel, env, pubPc, pubTmp, pubRet, stopPc,
                   attempts, stopHist, sub, calls, delays, assigned, hiFiled, callOpen>>

\* ------------------------------------------------------------ send_message
\* the callback of call_later(self.publish_interval, self.send_message)
send_message ==
    /\ runPc = "ioloop"
    /\ sendTimers > 0
    /\ sendTimers' = sendTimers - 1
    /\ IF channel = "open"
       THEN /\ msg_last_sent' = msg_last_sent + 1
            /\ IF msg_last_sent + 1 \in Ledger
               THEN UNCHANGED <<runPc, raised>>      \* basic_publish
               ELSE /\ raised' = "KeyError"          \* self.messages[...]
                    /\ runPc' = "crashed"
       ELSE UNCHANGED <<msg_last_sent, runPc, raised>>
    /\ last' = Other
    /\ UNCHANGED <<state, state_msg, stopped, started_publishing, acked, nacked,
                   msg_last_filed, reconnect_delay, max_reconnect_delay,
                   messages, conn, channel, chanStage, stopTimer,
                   pubPc, pubTmp, pubRet, stopPc, attempts, stopHist, sub, calls, confirms,
                   delays, assigned, hiFiled, callOpen>>

\* --------------------------------------------------------- publish_message
\* a caller thread enters publish_message and evaluates
\* 'self.channel is not None'; when it is None the refusal is appended to errors
PubBegin(t) ==
    /\ pubPc[t] = "idle"
    /\ calls' = calls + 1
    /\ callOpen' = [callOpen EXCEPT ![t] = (channel = "open")]
    /\ IF channel = None
       THEN /\ pubRet' = [pubRet EXCEPT ![t] = "refused"]
            /\ UNCHANGED pubPc
       ELSE /\ pubRet' = [pubRet EXCEPT ![t] = None]
            /\ pubPc' = [pubPc EXCEPT ![t] = "is_open"]
    /\ last' = Other
    /\ UNCHANGED <<prog, env, runPc, raised, pubTmp, stopPc, attempts, stopHist, sub,
                   confirms, delays, assigned, hiFiled>>

\* the second read of the attribute, 'self.channel.is_open'
PubIsOpen(t) ==
    /\ pubPc[t] = "is_open"
    /\ IF channel = None
       THEN \* 'NoneType' object has no attribute 'is_open'
            /\ pubRet' = [pubRet EXCEPT ![t] = "AttributeError"]
            /\ pubPc' = [pubPc EXCEPT ![t] = "idle"]
       ELSE IF channel = "open"
       THEN /\ pubPc' = [pubPc EXCEPT ![t] = "read_filed"]
            /\ UNCHANGED pubRet
       ELSE /\ pubRet' = [pubRet EXCEPT ![t] = "refused"]
            /\ pubPc' = [pubPc EXCEPT ![t] = "idle"]
    /\ last' = Other
    /\ UNCHANGED <<prog, env, runPc, raised, pubTmp, stopPc, hist_but_last, sub>>

\* self.msg_last_filed += 1 is a read ...
PubReadFiled(t) ==
    /\ pubPc[t] = "read_filed"
    /\ pubTmp' = [pubTmp EXCEPT ![t] = msg_last_filed]
    /\ pubPc' = [pubPc EXCEPT ![t] = "write_filed"]
    /\ last' = Other
    /\ UNCHANGED <<prog, env, runPc, raised, pubRet, stopPc, hist_but_last, sub>>

\* ... followed by a write
PubWriteFiled(t) ==
    /\ pubPc[t] = "write_filed"
    /\ msg_last_filed' = pubTmp[t] + 1
    /\ hiFiled' = Max(hiFiled, pubTmp[t] + 1)
    /\ pubPc' = [pubPc EXCEPT ![t] = "store"]
    /\ last' = Other
    /\ UNCHANGED <<state, state_msg, stopped, started_publishing, acked, nacked,
                   msg_last_sent, reconnect_delay, max_reconnect_delay,
                   messages, conn, channel, env, runPc, raised, pubTmp,
                   pubRet, stopPc, attempts, stopHist, sub, calls, confirms, delays,
                   assigned, callOpen>>

\* PubStore with the record stored under the number after msg_last_filed
PubStoreAhead(t) ==
    /\ pubPc[t] = "store"
    /\ messages' = DictSet(messages, msg_last_filed + 1, t)
    /\ assigned' = Append(assigned, msg_last_filed + 1)
    /\ pubPc' = [pubPc EXCEPT ![t] = "schedule"]
    /\ last' = Other
    /\ UNCHANGED <<state, state_msg, stopped, started_publishing, acked, nacked,
                   msg_last_filed, msg_last_sent, reconnect_delay,
                   max_reconnect_delay, conn, channel, env, runPc, raised,
                   pubTmp, pubRet, stopPc, attempts, stopHist, sub, calls, confirms, delays,
                   hiFiled, callOpen>>

\* with self.msg_lock: self.messages[self.msg_last_filed] = {...}
PubStore(t) ==
    /\ pubPc[t] = "store"
    /\ messages' = DictSet(messages, msg_last_filed, t)
    /\ assigned' = Append(assigned, msg_last_filed)
    /\ pubPc' = [pubPc EXCEPT ![t] = "schedule"]
    /\ last' = Other
    /\ UNCHANGED <<state, state_msg, stopped, started_publishing, acked, nacked,
                   msg_last_filed, msg_last_sent, reconnect_delay,
                   max_reconnect_delay, conn, channel, env, runPc, raised,
                   pubTmp, pubRet, stopPc, attempts, stopHist, sub, calls, confirms, delays,
                   hiFiled, callOpen>>

\* self.conn.ioloop.call_later(self.publish_interval, self.send_message)
PubSchedule(t) ==
    /\ pubPc[t] = "schedule"
    /\ sendTimers' = sendTimers + 1
    /\ pubRet' = [pubRet EXCEPT ![t] = "accepted"]
    /\ pubPc' = [pubPc EXCEPT ![t] = "idle"]
    /\ last' = Other
    /\ UNCHANGED <<prog, chanStage, stopTimer, runPc, raised, pubTmp, stopPc,
                   hist_but_last, sub>>

\* ------------------------------------------------------------------ stop()
\* self.stopped = True; a caller may run stop() again once it has returned
StopSet ==
    /\ stopPc \in {"idle", "done"}
    /\ stopped' = TRUE
    /\ stops' = stops + 1
    /\ stopPc' = "close_channel"
    /\ last' = Other
    /\ UNCHANGED <<state, state_msg, started_publishing, acked, nacked, msg_last_filed,
                   msg_last_sent, reconnect_delay, max_reconnect_delay,
                   messages, conn, channel, env, runPc, raised, pubPc, pubTmp,
                   pubRet, attempts, calls, confirms, delays, assigned,
                   hiFiled, callOpen, closeReqs, sub>>

\* close_channel(): if self.channel is not None: self.channel.close()
\* pika raises ChannelWrongStateError on a closing channel, which ends stop()
StopCloseChannel ==
    /\ stopPc = "close_channel"
    /\ channel' = IF channel = "open" THEN "closing" ELSE channel
    /\ stopPc' = IF channel = "closing" THEN "raised" ELSE "close_connection"
    /\ last' = Other
    /\ UNCHANGED <<state, state_msg, stopped, started_publishing, acked, nacked,
                   msg_last_filed, msg_last_sent, reconnect_delay,
                   max_reconnect_delay, messages, conn, env, runPc, raised,
                   pubPc, pubTmp, pubRet, hist_but_last, sub>>

\* close_connection(): if self.conn is not None: self.conn.close()
\* pika raises ConnectionWrongStateError on a closing or closed connection
StopCloseConnection ==
    /\ stopPc = "close_connection"
    /\ conn' = CASE conn = "open"       -> "closing"
                 [] conn = "connecting" -> "aborting"
                 [] OTHER               -> conn
    /\ closeReqs' = IF conn = None THEN closeReqs ELSE closeReqs + 1
    /\ stopPc' = IF conn \in {"closing", "closed", "aborting"}
                 THEN "raised" ELSE "done"
    /\ last' = Other
    /\ UNCHANGED <<state, state_msg, stopped, started_publishing, acked, nacked,
                   msg_last_filed, msg_last_sent, reconnect_delay,
                   max_reconnect_delay, messages, channel, env, runPc, raised,
                   pubPc, pubTmp, pubRet, attempts, calls, confirms, delays,
                   assigned, hiFiled, callOpen, stops, sub>>

\* the steps of the publisher thread that open and close connections
Reconnect ==
    \/ RunLoopTest
    \/ RunConnect
    \/ IoloopStop
    \/ on_connection_open
    \/ on_connection_open_error
    \/ on_connection_closed
    \/ on_channel_open
    \/ on_channel_closed
    \/ on_exchange_declare_ok

\* the same, with a caller thread that runs stop() once
Lifecycle ==
    \/ Reconnect
    \/ (stops = 0 /\ StopSet)
    \/ StopCloseChannel
    \/ StopCloseConnection

\* subscriber_pomes as imported: __subscribers = {}
Unregistered ==
    /\ subscribers = {}
    /\ consumerState = MQS_INITIALIZING
    /\ consumerStarted = FALSE
    /\ startPc = "idle"
    /\ errors = <<>>
    /\ result = FALSE
    /\ subscriber = None
    /\ starts = 0
    /\ consumerLeft = FALSE
    /\ stateTested = None

\* one caller thread, and a broker that may confirm any tag
Init ==
    /\ Constructed
    /\ Unregistered
    /\ max_reconnect_delay = MaxCfgDelay

Next ==
    \/ Lifecycle
    \/ (attempts < MaxCycles /\ RunReset)
    \/ \E kind \in {"ack", "nack"}, multiple \in BOOLEAN, tag \in 1..MaxPublish :
          confirms < MaxConfirm /\ on_delivery_confirmation(kind, multiple, tag)
    \/ send_message
    \/ (calls < MaxPublish /\ PubBegin(Caller))
    \/ PubIsOpen(Caller)
    \/ PubReadFiled(Caller)
    \/ PubWriteFiled(Caller)
    \/ PubStore(Caller)
    \/ PubSchedule(Caller)

Spec == Init /\ [][Next]_vars

\* the same with a broker that confirms only delivery tags that were
\* transmitted and are still unresolved
NextHonest ==
    \/ Lifecycle
    \/ (attempts < MaxCycles /\ RunReset)
    \/ \E kind \in {"ack", "nack"}, multiple \in BOOLEAN, tag \in 1..MaxPublish :
          /\ confirms < MaxConfirm
          /\ tag <= msg_last_sent
          /\ tag \in Ledger
          /\ on_delivery_confirmation(kind, multiple, tag)
    \/ send_message
    \/ (calls < MaxPublish /\ PubBegin(Caller))
    \/ PubIsOpen(Caller)
    \/ PubReadFiled(Caller)
    \/ PubWriteFiled(Caller)
    \/ PubStore(Caller)
    \/ PubSchedule(Caller)

SpecHonest == Init /\ [][NextHonest]_vars

\* several caller threads in publish_message() at the same time; no stop()
NextRace ==
    \/ Reconnect
    \/ (attempts < MaxRaceCycles /\ RunReset)
    \/ \E kind \in {"ack", "nack"}, multiple \in BOOLEAN, tag \in 1..MaxRacePublish :
          confirms < MaxRaceConfirm /\ on_delivery_confirmation(kind, multiple, tag)
    \/ send_message
    \/ \E t \in Threads : calls < MaxRacePublish /\ PubBegin(t)
    \/ \E t \in Threads : PubIsOpen(t)
    \/ \E t \in Threads : PubReadFiled(t)
    \/ \E t \in Threads : PubWriteFiled(t)
    \/ \E t \in Threads : PubStore(t)
    \/ \E t \in Threads : PubSchedule(t)

SpecRace == Init /\ [][NextRace]_vars

\* the reconnection cycle alone, for every configured max_reconnect_delay
InitBackoff ==
    /\ Constructed
    /\ Unregistered
    /\ max_reconnect_delay \in 0..MaxCfgDelay

NextBackoff ==
    \/ Lifecycle
    \/ (attempts < MaxAttempts /\ RunReset)

SpecBackoff == InitBackoff /\ [][NextBackoff]_vars

\* the same under the scheduling the threads and the transport provide: each
\* thread keeps running, a connection attempt ends in open or in error, the
\* broker answers the channel and exchange requests, every close that was
\* requested completes, and every timer fires
Fairness ==
    /\ WF_vars(RunLoopTest)
    /\ WF_vars(attempts < MaxAttempts /\ RunReset)
    /\ WF_vars(RunConnect)
    /\ WF_vars(IoloopStop)
    /\ WF_vars(on_connection_open \/ on_connection_open_error)
    /\ WF_vars(on_channel_open)
    /\ WF_vars(on_exchange_declare_ok)
    /\ WF_vars(conn = "closing" /\ on_connection_closed)
    /\ WF_vars(channel = "closing" /\ on_channel_closed)
    /\ WF_vars(StopCloseChannel)
    /\ WF_vars(StopCloseConnection)

\* a caller thread that runs stop() again after it has returned
NextStop ==
    \/ Reconnect
    \/ (attempts < MaxStopCycles /\ RunReset)
    \/ (stops < MaxStops /\ StopSet)
    \/ StopCloseChannel
    \/ StopCloseConnection

SpecStop == Init /\ [][NextStop]_vars

SpecFair == InitBackoff /\ [][NextBackoff]_vars /\ Fairness

\* ========================================================= subscriber_pomes
\* subscriber_create for the default badge; a constructor that raises leaves
\* the registry as it was
subscriber_create ==
    /\ startPc \in {"idle", "returned"}
    /\ DEFAULT_BADGE \notin subscribers
    /\ subscribers' = subscribers \cup {DEFAULT_BADGE}
    /\ consumerState' = MQS_INITIALIZING
    /\ consumerStarted' = FALSE
    /\ consumerLeft' = FALSE
    /\ UNCHANGED <<prog, env, ctl, hist, startPc, errors, result, subscriber,
                   starts, stateTested>>

\* the consumer's connection state machine, once its thread runs
ConsumerStep ==
    /\ consumerStarted
    /\ consumerState' \in
         CASE consumerState = MQS_INITIALIZING
                -> {MQS_CONNECTION_OPEN, MQS_CONNECTION_ERROR}
           [] consumerState = MQS_CONNECTION_OPEN
                -> {MQS_CONNECTION_CLOSED, MQS_CONNECTION_ERROR}
           [] OTHER
                -> {MQS_INITIALIZING}
    /\ consumerLeft' = (consumerLeft \/ consumerState' # MQS_INITIALIZING)
    /\ UNCHANGED <<prog, env, ctl, hist, subscribers, consumerStarted, startPc,
                   errors, result, subscriber, starts, stateTested>>

\* result = False; subscriber = __get_subscriber(errors, badge)
\* the caller passes an errors list that may hold entries of earlier calls
StartBegin(entry) ==
    /\ startPc \in {"idle", "returned"}
    /\ starts' = starts + 1
    /\ result' = FALSE
    /\ stateTested' = None
    /\ consumerLeft' = (consumerState # MQS_INITIALIZING)
    /\ IF DEFAULT_BADGE \in subscribers
       THEN /\ subscriber' = DEFAULT_BADGE
            /\ errors' = [i \in 1..entry |-> "earlier"]
            /\ startPc' = "start"
       ELSE /\ subscriber' = None
            /\ errors' = Append([i \in 1..entry |-> "earlier"], "not created")
            /\ startPc' = "returned"
    /\ UNCHANGED <<prog, env, ctl, hist, subscribers, consumerState,
                   consumerStarted>>

\* try: subscriber.start() except Exception: errors.append(...)
\* Thread.start() raises RuntimeError when the thread was started before
StartThread(raises) ==
    /\ startPc = "start"
    /\ consumerStarted => raises
    /\ IF raises
       THEN /\ errors' = Append(errors, "start")
            /\ UNCHANGED consumerStarted
       ELSE /\ consumerStarted' = TRUE
            /\ UNCHANGED errors
    /\ startPc' = "any_errors"
    /\ UNCHANGED <<prog, env, ctl, hist, subscribers, consumerState, result,
                   subscriber, starts, consumerLeft, stateTested>>

\* if not errors
StartAnyErrors ==
    /\ startPc = "any_errors"
    /\ startPc' = IF errors = <<>> THEN "wait" ELSE "returned"
    /\ UNCHANGED <<prog, env, ctl, hist, subscribers, consumerState,
                   consumerStarted, errors, result, subscriber, starts,
                   consumerLeft, stateTested>>

\* while subscriber.consumer.get_state() == MQS_INITIALIZING: time.sleep(0.001)
\* the read that ends the loop
StartWait ==
    /\ startPc = "wait"
    /\ consumerState # MQS_INITIALIZING
    /\ startPc' = "test"
    /\ UNCHANGED <<prog, env, ctl, hist, subscribers, consumerState,
                   consumerStarted, errors, result, subscriber, starts,
                   consumerLeft, stateTested>>

\* if subscriber.consumer.get_state() == MQS_CONNECTION_ERROR: errors.append(...)
\* else: result = True
StartTest ==
    /\ startPc = "test"
    /\ stateTested' = consumerState
    /\ IF consumerState = MQS_CONNECTION_ERROR
       THEN /\ errors' = Append(errors, "state")
            /\ UNCHANGED result
       ELSE /\ result' = TRUE
            /\ UNCHANGED errors
    /\ startPc' = "returned"
    /\ UNCHANGED <<prog, env, ctl, hist, subscribers, consumerState,
                   consumerStarted, subscriber, starts, consumerLeft>>

InitStart ==
    /\ Constructed
    /\ max_reconnect_delay = MaxCfgDelay
    /\ Unregistered

NextStart ==
    \/ subscriber_create
    \/ ConsumerStep
    \/ \E entry \in 0..MaxEntryErrors : starts < MaxStarts /\ StartBegin(entry)
    \/ \E raises \in BOOLEAN : StartThread(raises)
    \/ StartAnyErrors
    \/ StartWait
    \/ StartTest

SpecStart == InitStart /\ [][NextStart]_vars

\* ===================================================== reconnect delay
\* a delay computation that follows a ready transition it is the first to see
IsReset(i) == delays[i].ready /\ (i = 1 \/ ~delays[i - 1].ready)

\* C1: every delay returned by __get_reconnect_delay lies in
\* 0..max_reconnect_delay, and a delay equal to max_reconnect_delay is
\* followed by max_reconnect_delay unless the next computation is a reset
C1_DelayWithinCap ==
    \A i \in 1..Len(delays) :
        /\ delays[i].d \in 0..max_reconnect_delay
        /\ (i < Len(delays) /\ delays[i].d = max_reconnect_delay
                /\ ~delays[i + 1].ready)
              => delays[i + 1].d = max_reconnect_delay

\* C2: while the publisher has not reached ready, the i-th consecutive failed
\* or closed attempt produces the delay min(i, max_reconnect_delay)
\* (1,2,3,4,5,5 for max_reconnect_delay = 5)
C2_DelayGrowsByOne ==
    \A i \in 1..Len(delays) :
        (\A j \in 1..i : ~delays[j].ready)
            => delays[i].d = Min(i, max_reconnect_delay)

\* C3: the first delay computed after the publisher reached ready is 0
C3_ZeroAfterReady ==
    \A i \in 1..Len(delays) : IsReset(i) => delays[i].d = 0

\* C4: with max_reconnect_delay = 0 every delay returned is 0
C4_ZeroCapIsImmediate ==
    max_reconnect_delay = 0 => \A i \in 1..Len(delays) : delays[i].d = 0

\* ========================================================== the ledger
\* C5: a delivery confirmation whose tag is not a key of the ledger raises no
\* error and leaves acked, nacked and the size of the ledger unchanged
C5_UnknownTagIgnored ==
    [][(last'.op = "confirm" /\ ~last'.known)
          => /\ raised' = raised
             /\ runPc' = runPc
             /\ acked' = acked
             /\ nacked' = nacked
             /\ Cardinality(Ledger') = Cardinality(Ledger)]_vars

\* C6: a cumulative ACK for a pending tag N removes exactly the pending
\* sequences <= N, adds their number to acked, and leaves nacked and every
\* entry with a sequence > N as they were
C6_CumulativeAck ==
    [][(last'.op = "confirm" /\ last'.kind = "ack" /\ last'.multiple
            /\ last'.known)
          => LET N == last'.tag
             IN  /\ Ledger' = {k \in Ledger : k > N}
                 /\ \A k \in Ledger' : messages'[k] = messages[k]
                 /\ acked' = acked + Cardinality({k \in Ledger : k <= N})
                 /\ nacked' = nacked]_vars

\* sequences 1,2,3 pending, then a cumulative ACK for 2: only 3 is left
C6_Witness ==
    /\ last.op = "confirm"
    /\ last.kind = "ack" /\ last.multiple /\ last.known /\ last.tag = 2
    /\ Ledger = {3}
    /\ acked = 2
    /\ msg_last_filed = 3

\* C7: on a connection that is still up, once every recorded message has been
\* resolved, acked + nacked is the number of records stored on the connection
C7_CountersMatchRecorded ==
    (/\ conn = "open" /\ channel = "open" /\ chanStage = "ready"
     /\ \A t \in Threads : pubPc[t] = "idle"
     /\ Len(assigned) >= 1
     /\ Ledger = {})
        => acked + nacked = Len(assigned)

\* C8: a publish_message() call during which the channel is never open
\* changes neither the ledger nor msg_last_filed nor msg_last_sent, schedules
\* no send_message, and ends with the refusal in the error list
C8_RefusedWhenNotOpen ==
    [][((calls' # calls \/ pubPc'[Caller] # pubPc[Caller])
            /\ ~callOpen'[Caller])
          => /\ messages' = messages
             /\ msg_last_filed' = msg_last_filed
             /\ msg_last_sent' = msg_last_sent
             /\ sendTimers' = sendTimers
             /\ (pubPc'[Caller] = "idle" => pubRet'[Caller] = "refused")]_vars

C10_SequenceNumbersUnique ==
    \A i, j \in 1..Len(assigned) : i < j => assigned[i] < assigned[j]

\* ================================================== connections and stop
\* the step of run() that creates a connection object
ConnectStep == runPc = "connect" /\ runPc' = "ioloop"

\* C11: whenever run() creates a connection object, acked, nacked,
\* msg_last_filed and msg_last_sent are all zero
C11_CountersZeroOnConnect ==
    [][ConnectStep => /\ acked' = 0
                      /\ nacked' = 0
                      /\ msg_last_filed' = 0
                      /\ msg_last_sent' = 0]_vars

\* C12: connect() is not invoked once stop() has set the stopped flag
C12_NoConnectAfterStop ==
    [][ConnectStep => ~stopped]_vars

\* run() is held at the bound on the number of connection objects
AtBound == runPc = "reset" /\ attempts = MaxAttempts

\* C13: once stop() has been called, run() eventually returns
C13_StopEndsRun ==
    stopped ~> (runPc = "finished" \/ AtBound)

\* C14: stop() may be called twice in a row, or before the connection ever
\* opened: no call raises, and over the calls the connection is asked to
\* close at most once
C14_StopIdempotent ==
    /\ stopPc # "raised"
    /\ closeReqs <= 1

\* ========================================================= state queries
\* a new connection attempt is under way
AttemptInProgress == conn \in {"connecting", "aborting"}

\* C15: while a fresh connection attempt is in progress the state is
\* INITIALIZING; in particular it is not the ERROR or CLOSED left by the
\* previous attempt
C15_InitializingOnFreshAttempt ==
    AttemptInProgress => state = MQP_INITIALIZING

\* return self.state
get_state == state

\* the body of get_state_msg is its docstring alone: the call returns None
get_state_msg == None

\* C16: get_state_msg() returns the current state_msg
C16_StateMsgReturned ==
    get_state_msg = state_msg

\* ======================================================== subscriber_start
\* C17: subscriber_start for an existing instance returns only after the
\* instance's state has left INITIALIZING, returns True only if the state it
\* then finds is not ERROR, and has appended an error entry whenever it
\* returns False because of ERROR
C17_StartWaitsForState ==
    (startPc = "returned" /\ subscriber # None) =>
        /\ consumerLeft
        /\ result => stateTested \notin {None, MQS_CONNECTION_ERROR}
        /\ (~result /\ stateTested = MQS_CONNECTION_ERROR) =>
               errors # <<>> /\ errors[Len(errors)] = "state"

\* ================================================= backoff after readiness
\* on_connection_open_error: a connection attempt fails before it is open,
\* so before it can reach ready
FailedAttemptStep == AttemptInProgress /\ conn' = "closed"

\* the delay a failed attempt starts from: zero when the computation before it
\* was the closure that followed the ready transition, else the delay that
\* computation returned
DelayBefore ==
    IF IsReset(Len(delays)) THEN 0 ELSE delays[Len(delays)].d

TransmitStep == msg_last_sent' = msg_last_sent + 1 /\ raised' = raised

\* C19: a message is handed to the transport only on an open channel on
\* which the exchange was declared and confirm_delivery was issued
C19_TransmitOnlyWhenReady ==
    [][TransmitStep => (channel = "open" /\ chanStage = "ready")]_vars

\* ========================================================= channel closure
\* on_channel_closed has just run, and stop() had not been called
ChannelLost == last.op = "channel_closed" /\ ~last.stopped

\* C20: when the broker closes the channel and no stop was requested, the
\* channel reference is null and the connection is closing; unless stop() is
\* called meanwhile, the backoff timer is then set and run() comes round to
\* creating the next connection
C20_ChannelClosureReconnects ==
    /\ [](ChannelLost => (channel = None /\ conn = "closing"))
    /\ (ChannelLost /\ attempts < MaxAttempts) ~> (stopped \/ stopTimer)
    /\ (ChannelLost /\ attempts < MaxAttempts) ~> (stopped \/ runPc = "connect")

C20_Witness ==
    /\ ChannelLost
    /\ channel = None
    /\ conn = "closing"
    /\ attempts < MaxAttempts

\* ================================================ every failure backs off
\* C21: when no stop was requested, run() creates a connection after the
\* first one only when every earlier connection has ended in a call of
\* __get_reconnect_delay and the timer scheduled with that delay has fired
C21_ReconnectAfterBackoff ==
    [][(ConnectStep /\ attempts >= 1 /\ ~stopped) =>
           (Len(delays) = attempts /\ ~stopTimer)]_vars

C21_Witness ==
    /\ attempts >= 2
    /\ conn = "connecting"
    /\ ~stopped
    /\ Len(delays) = attempts - 1
    /\ state = MQP_CONNECTION_CLOSED

\* ===================================================== loss of connection
\* the connection is lost, or run() is between two connections
LossHandling ==
    \/ (conn # "closed" /\ conn' = "closed")
    \/ runPc \in {"loop_test", "reset", "connect"}

\* C22: the handling of a lost connection and the reconnect that follows
\* remove no entry from the ledger and count none as acked or nacked
C22_PendingSurviveReconnect ==
    [][LossHandling => /\ Ledger \subseteq DOMAIN messages'
                       /\ acked' <= acked
                       /\ nacked' <= nacked]_vars

\* ========================================================= ledger lookup
\* send_message found the channel open and incremented self.msg_last_sent
SendStep == msg_last_sent' = msg_last_sent + 1

\* C23: whenever send_message runs with the channel open, the ledger holds a
\* record under msg_last_sent + 1
C23_SendFindsRecord ==
    [][SendStep => (msg_last_sent + 1) \in Ledger]_vars

\* ============================================================ bookkeeping
\* ledger entries of messages that were transmitted
Unresolved == {k \in Ledger : k <= msg_last_sent}

\* C24: with a broker that confirms only transmitted, unresolved tags, every
\* transmitted message is acked, nacked or still in the ledger, once each,
\* and no more messages were transmitted than were filed
C24_BookkeepingBalances ==
    /\ acked + nacked + Cardinality(Unresolved) = msg_last_sent
    /\ msg_last_sent <= msg_last_filed

====
